---- MODULE Spec2Model ----
(***************************************************************************)
(* Model of mongomove's Importer.Import (src/mongomove.go): the pre-flight *)
(* checks, the filter, the confirmation, and the worker pool that copies   *)
(* the filtered databases from the source to the target cluster.           *)
(*                                                                         *)
(* Every goroutine of Import is a process of the model: the caller of      *)
(* Import ("main"), the job producer, the wg.Wait goroutine and the        *)
(* workers.  The unbuffered channels jobs and errors are rendezvous: a     *)
(* send and its receive are one joint action.  A select is an action that  *)
(* may take any of the cases that can proceed.                             *)
(***************************************************************************)
EXTENDS Integers, Sequences, FiniteSets, TLC

\* ------------------------------------------------------------ bounds

\* Largest value of the -parallel option that is explored.
MaxParallel == 2

\* Smallest value of the -parallel option that is explored (below the clamp).
MinParallel == 0 - 1

\* ------------------------------------------------- the source cluster

\* Database and field names are strings, modelled as tuples of characters
\* so that strings.HasPrefix can be computed.
DbA == <<"m", "a">>
DbB == <<"m", "b">>
DbX == <<"x">>

\* What source.ListDatabaseNames returns.
DBNames == <<DbA, DbB, DbX>>

\* What db.ListCollectionNames returns for a database of the source.
Collections(d) ==
    CASE d = DbA -> <<"c1", "c2">>
      [] d = DbB -> <<"c1">>
      [] OTHER  -> <<>>

\* The documents a cursor over a source collection yields, in cursor order.
Docs(d, c) ==
    CASE d = DbA /\ c = "c1" -> <<1, 2>>
      [] d = DbA /\ c = "c2" -> <<>>
      [] d = DbB /\ c = "c1" -> <<3>>
      [] OTHER -> <<>>

IdKey == <<"_", "i", "d">>

\* The index descriptors col.Indexes().List yields for a source collection:
\* name, unique flag and the key document (field, type token).
Indexes(d, c) ==
    CASE d = DbA /\ c = "c1" ->
            << [name |-> "_id_", unique |-> FALSE, key |-> << <<IdKey, 1>> >>],
               [name |-> "a_1", unique |-> TRUE, key |-> << <<<<"a">>, 1>> >>] >>
      [] OTHER ->
            << [name |-> "_id_", unique |-> FALSE, key |-> << <<IdKey, 1>> >>] >>

\* ------------------------------------------------------ pure helpers

\* strings.HasPrefix(s, prefix)
HasPrefix(s, prefix) ==
    /\ Len(prefix) <= Len(s)
    /\ SubSeq(s, 1, Len(prefix)) = prefix

\* regexp.MatchString for the patterns explored: a literal, with or without
\* the anchors ^ and $.  An unanchored pattern matches anywhere in s.
MatchString(expr, s) ==
    \E i \in 1..(Len(s) + 1) :
        /\ i + Len(expr.lit) - 1 <= Len(s)
        /\ SubSeq(s, i, i + Len(expr.lit) - 1) = expr.lit
        /\ expr.bol => i = 1
        /\ expr.eol => i + Len(expr.lit) - 1 = Len(s)

\* The closure of Exclude with `return true` inside the loop: a name is
\* kept as soon as one pattern does not match it.
ExcludeKeepsOnMiss(exprs, db) ==
    \/ exprs = <<>>
    \/ \E k \in 1..Len(exprs) : ~MatchString(exprs[k], db)

\* The closure Exclude(exprs...) installs: the loop over exprs returns false
\* at the first pattern that matches, true after the loop.
RECURSIVE ExcludeKeeps(_, _)
ExcludeKeeps(exprs, db) ==
    IF exprs = <<>> THEN TRUE
    ELSE IF MatchString(Head(exprs), db) THEN FALSE
         ELSE ExcludeKeeps(Tail(exprs), db)

\* One element of cfg.dbFilter applied to a name.  A filter is the closure
\* HasPrefix(prefix) returns, or the closure Exclude(exprs...) installs.
ApplyFilter(f, name) ==
    IF "exclude" \in DOMAIN f
    THEN ExcludeKeeps(f.exclude, name)
    ELSE HasPrefix(name, f.prefix)

\* The inner loop of filterDatabases with `if filter(name)`: a name is
\* skipped only when no filter accepts it.
RejectedByAll(filters, name) ==
    \A k \in 1..Len(filters) : ~ApplyFilter(filters[k], name)

\* The inner loop of filterDatabases: does some filter reject the name?
Rejected(filters, name) ==
    \E k \in 1..Len(filters) : ~ApplyFilter(filters[k], name)

RECURSIVE FilterLoop(_, _)
FilterLoop(filters, ns) ==
    IF ns = <<>> THEN <<>>
    ELSE IF Rejected(filters, Head(ns))
         THEN FilterLoop(filters, Tail(ns))
         ELSE <<Head(ns)>> \o FilterLoop(filters, Tail(ns))

\* filterDatabases with the filters ignored.
filterDatabasesUnfiltered(filters, ns) == ns

\* importConfig.filterDatabases
filterDatabases(filters, ns) ==
    IF Len(filters) = 0 THEN ns ELSE FilterLoop(filters, ns)

\* The worker loop with `index <= cfg.parallel`: one worker too many.
NumWorkersOffByOne(parallel) == IF parallel < 1 THEN 1 ELSE parallel + 1

\* Import's clamp of cfg.parallel, and the number of worker goroutines the
\* loop `for index := 0; index < cfg.parallel; index++` starts.
NumWorkers(parallel) == IF parallel < 1 THEN 1 ELSE parallel

\* Import's clamp of cfg.batchSize.
BatchSizeOf(batchSize) == IF batchSize < 1 THEN 1 ELSE batchSize

\* The read loop of importCollection over the documents `docs`, with `buf`
\* the buffer so far: the chunks handed to InsertMany, in call order.  With
\* final = TRUE the flush after the loop is included.
RECURSIVE Batches(_, _, _, _)
Batches(docs, buf, B, final) ==
    IF docs = <<>>
    THEN IF final /\ Len(buf) > 0 THEN <<buf>> ELSE <<>>
    ELSE LET b == Append(buf, Head(docs)) IN
         IF Len(b) >= B
         THEN <<b>> \o Batches(Tail(docs), <<>>, B, final)
         ELSE Batches(Tail(docs), b, B, final)

\* The mirrored collection resolved against i.source instead of i.target.
TargetOfSource(d, c) == [cluster |-> "source", db |-> d, col |-> c]

\* The mirrored target collection importCollection and ensureColIndexes
\* resolve: i.target.Database(col.Database().Name()).Collection(col.Name()).
TargetOf(d, c) == [cluster |-> "target", db |-> d, col |-> c]

\* The target database the worker hands to dropDB: i.target.Database(name).
DropTarget(d) == [cluster |-> "target", db |-> d, col |-> ""]

\* A call made to the driver.
Call(op, where, arg) ==
    [op |-> op, cluster |-> where.cluster, db |-> where.db,
     col |-> where.col, arg |-> arg]

SourceOf(d, c) == [cluster |-> "source", db |-> d, col |-> c]

\* The InsertMany calls of one run of importCollection that flushed `chunks`.
InsertCalls(d, c, chunks) ==
    { Call("insertMany", TargetOf(d, c), chunks[k]) : k \in 1..Len(chunks) }

\* The slices a Go `range` over a map with the entries of s can build: the
\* iteration order of a map is not specified, any order can come out.
MapOrders(s) ==
    LET n == Len(s)
        bij == { f \in [1..n -> 1..n] : \A i, j \in 1..n : f[i] = f[j] => i = j }
    IN { [i \in 1..n |-> s[f[i]]] : f \in bij }

\* ensureColIndexes: the `keys` document built for one descriptor.  The
\* descriptor was decoded into a bson.M, so its key document is a Go map:
\* the fields without the "_" prefix are appended in the map's iteration
\* order.
KeptKeys(desc) ==
    MapOrders(SelectSeq(desc.key, LAMBDA kv : ~HasPrefix(kv[1], <<"_">>)))

\* ensureColIndexes: `unique, _ := models[i]["unique"].(bool)`.
UniqueOf(desc) == IF "unique" \in DOMAIN desc THEN desc.unique ELSE FALSE

\* ensureColIndexes: the idxModels the loop over the descriptors can build;
\* a descriptor with no key left is skipped.
RECURSIVE IdxModels(_)
IdxModels(descs) ==
    IF descs = <<>> THEN {<<>>}
    ELSE LET ks == KeptKeys(Head(descs))
             rest == IdxModels(Tail(descs))
         IN IF ks = {<<>>} THEN rest
            ELSE { <<[name |-> Head(descs).name, unique |-> UniqueOf(Head(descs)),
                      keys |-> k]>> \o r : k \in ks, r \in rest }

Range(s) == { s[k] : k \in 1..Len(s) }

\* ------------------------------------------------------------- state

\* The worker goroutines are interchangeable closures.  At any time a
\* worker is blocked in `range jobs` (counted by idle), has returned
\* (counted by gone), or is in the loop body for the name it received: that
\* worker is job[name].
VARIABLES
    cfg,        \* the importConfig as the options left it
    cancelled,  \* ctx.Done() is closed
    pcMain,     \* where the caller of Import is
    result,     \* what Import returned
    pinged,     \* the outcome of Importer.ping, "none" before it
    names,      \* the filtered database names
    asked,      \* the answer to the confirmation prompt, "none" before it
    pcProd,     \* the producer goroutine
    next,       \* the producer's position in names
    jobsClosed, \* close(jobs) was executed
    doneClosed, \* close(done) was executed
    idle,       \* the number of workers blocked in `range jobs`
    gone,       \* the number of workers that returned (wg.Done)
    job,        \* per database name: the worker in the loop body for it
    ops,        \* the calls made to the driver so far
    failed,     \* the worker errors that have occurred so far
    firstErr    \* the worker error that occurred first

vars == <<cfg, cancelled, pcMain, result, pinged, names, asked, pcProd, next,
          jobsClosed, doneClosed, idle, gone, job, ops, failed, firstErr>>

\* The state of one call of importDatabase followed step by step (its
\* collection tasks read and insert document by document), and of one call
\* of filterDatabases.  The pool above takes a collection task as one step;
\* these variables stay parked in it.
VARIABLES
    icfg,       \* the importConfig importDatabase was called with
    srcdb,      \* the source database: its collections, documents, indexes
    ictx,       \* the ctx importDatabase was called with is cancelled
    task,       \* per collection: the errgroup task running importCollection
    imp,        \* importDatabase: its position, the group's error, its result
    flt         \* filterDatabases: the option list, the names, the result

unitVars == <<icfg, srcdb, ictx, task, imp, flt>>

\* The values of the step-by-step variables while they are not explored.
DbParked ==
    /\ icfg = <<>>
    /\ srcdb = <<>>
    /\ ictx = FALSE
    /\ task = <<>>
    /\ imp = <<>>

Parked == DbParked /\ flt = <<>>

\* Values of Import's result and of a worker's error.
Err(kind, d) == [kind |-> kind, db |-> d]
Nil == Err("nil", <<>>)
CtxErr == Err("ctx", <<>>)
NoResult == Err("none", <<>>)
IsWorkerErr(e) == e.kind \in {"drop", "import"}

DBs == Range(DBNames)

NoJob == [pc |-> "none", tasks |-> <<>>, idx |-> 0]

\* The filter lists explored: none, and the -prefix option's HasPrefix.
FilterLists == { <<>>, <<[prefix |-> <<"m">>]>> }

Configs ==
    [parallel : MinParallel..MaxParallel,
     batchSize : {0},
     drop : BOOLEAN,
     skipConfirm : BOOLEAN,
     ensureIndexes : BOOLEAN,
     dbFilter : FilterLists]

Init ==
    /\ cfg \in Configs
    /\ cancelled = FALSE
    /\ pcMain = "ping"
    /\ result = NoResult
    /\ pinged = "none"
    /\ names = <<>>
    /\ asked = "none"
    /\ pcProd = "none"
    /\ next = 1
    /\ jobsClosed = FALSE
    /\ doneClosed = FALSE
    /\ idle = 0
    /\ gone = 0
    /\ job = [d \in DBs |-> NoJob]
    /\ ops = {}
    /\ failed = {}
    /\ firstErr = Nil
    /\ Parked

\* The names received from the jobs channel so far, in order.
Taken == SubSeq(names, 1, next - 1)

\* The databases whose loop body ran to its end with no failure.
Copied ==
    { d \in DBs : /\ job[d].pc = "done"
                  /\ Err("drop", d) \notin failed
                  /\ Err("import", d) \notin failed }

\* Every filtered database was copied in full.
AllCopied == Range(names) \subseteq Copied

\* The workers that are dropping, copying or indexing a database.
Busy == { d \in DBs : job[d].pc \in {"drop", "import", "copy", "index"} }

\* ------------------------------------------------------ the caller

Cluster(c) == [cluster |-> c, db |-> <<>>, col |-> ""]

\* Importer.ping: the source is pinged, then the target, both under a
\* context with the ping timeout; r names the ping that failed.
PingCalls(r) ==
    {Call("ping", Cluster("source"), <<>>)} \cup
    (IF r = "source" THEN {} ELSE {Call("ping", Cluster("target"), <<>>)})

\* Import with the ping's error not returned: it goes on to list.
MainPingNoReturn ==
    /\ pcMain = "ping"
    /\ \E r \in {"ok", "source", "target"} :
          /\ (r = "ok") => ~cancelled
          /\ ops' = ops \cup PingCalls(r)
          /\ pinged' = r
          /\ pcMain' = "list"
          /\ result' = result
    /\ UNCHANGED <<cfg, cancelled, names, asked, pcProd, next,
                   jobsClosed, doneClosed, idle, gone, job, failed, firstErr>>
    /\ UNCHANGED unitVars

\* Import: `if err := i.ping(...); err != nil { return ... }`
MainPing ==
    /\ pcMain = "ping"
    /\ \E r \in {"ok", "source", "target"} :
          /\ (r = "ok") => ~cancelled
          /\ ops' = ops \cup PingCalls(r)
          /\ pinged' = r
          /\ IF r = "ok"
             THEN pcMain' = "list" /\ result' = result
             ELSE pcMain' = "returned" /\ result' = Err("ping", <<r>>)
    /\ UNCHANGED <<cfg, cancelled, names, asked, pcProd, next,
                   jobsClosed, doneClosed, idle, gone, job, failed, firstErr>>
    /\ UNCHANGED unitVars

\* Import: ListDatabaseNames on the source, then filterDatabases.
MainList ==
    /\ pcMain = "list"
    /\ ops' = ops \cup {Call("listDatabaseNames", Cluster("source"), <<>>)}
    /\ \E ok \in BOOLEAN :
          /\ ok => ~cancelled
          /\ IF ok
             THEN /\ names' = filterDatabases(cfg.dbFilter, DBNames)
                  /\ pcMain' = "confirm"
                  /\ result' = result
             ELSE /\ names' = names
                  /\ pcMain' = "returned"
                  /\ result' = Err("list", <<>>)
    /\ UNCHANGED <<cfg, cancelled, pinged, asked, pcProd, next, jobsClosed,
                   doneClosed, idle, gone, job, failed, firstErr>>
    /\ UNCHANGED unitVars

\* importConfig.confirm: (true, nil) without a prompt when skipConfirm is
\* set; else the prompt's answer, or the prompt's error.
confirm(skipConfirm) ==
    IF skipConfirm
    THEN {[confirmed |-> TRUE, err |-> FALSE, asked |-> "none"]}
    ELSE {[confirmed |-> TRUE, err |-> FALSE, asked |-> "yes"],
          [confirmed |-> FALSE, err |-> FALSE, asked |-> "no"],
          [confirmed |-> FALSE, err |-> TRUE, asked |-> "err"]}

\* Import with `if !confirmed` missing: a declined prompt goes on.
MainConfirmNoExit ==
    /\ pcMain = "confirm"
    /\ \E r \in confirm(cfg.skipConfirm) :
          /\ asked' = r.asked
          /\ IF r.err
             THEN pcMain' = "returned" /\ result' = Err("confirm", <<>>)
             ELSE pcMain' = "spawn" /\ result' = result
    /\ UNCHANGED <<cfg, cancelled, pinged, names, pcProd, next, jobsClosed,
                   doneClosed, idle, gone, job, ops, failed, firstErr>>
    /\ UNCHANGED unitVars

\* Import: cfg.confirm(); an error is returned, a declined prompt ends the
\* process with os.Exit(1).
MainConfirm ==
    /\ pcMain = "confirm"
    /\ \E r \in confirm(cfg.skipConfirm) :
          /\ asked' = r.asked
          /\ IF r.err
             THEN pcMain' = "returned" /\ result' = Err("confirm", <<>>)
             ELSE IF ~r.confirmed
                  THEN pcMain' = "exited" /\ result' = result
                  ELSE pcMain' = "spawn" /\ result' = result
    /\ UNCHANGED <<cfg, cancelled, pinged, names, pcProd, next, jobsClosed,
                   doneClosed, idle, gone, job, ops, failed, firstErr>>
    /\ UNCHANGED unitVars

\* Import: the channels are made and the worker, producer and wg.Wait
\* goroutines are started; the caller goes on to its select.
MainSpawn ==
    /\ pcMain = "spawn"
    /\ pcMain' = "select"
    /\ pcProd' = "run"
    /\ idle' = NumWorkers(cfg.parallel)
    /\ UNCHANGED <<cfg, cancelled, result, pinged, names, asked, next,
                   jobsClosed, doneClosed, gone, job, ops, failed, firstErr>>
    /\ UNCHANGED unitVars

\* Import's select, case <-ctx.Done(): return ctx.Err()
MainCtxDone ==
    /\ pcMain = "select"
    /\ cancelled
    /\ pcMain' = "returned"
    /\ result' = CtxErr
    /\ UNCHANGED <<cfg, cancelled, pinged, names, asked, pcProd, next,
                   jobsClosed, doneClosed, idle, gone, job, ops, failed,
                   firstErr>>
    /\ UNCHANGED unitVars

\* Import's select, case <-done: return nil
MainDone ==
    /\ pcMain = "select"
    /\ doneClosed
    /\ pcMain' = "returned"
    /\ result' = Nil
    /\ UNCHANGED <<cfg, cancelled, pinged, names, asked, pcProd, next,
                   jobsClosed, doneClosed, idle, gone, job, ops, failed,
                   firstErr>>
    /\ UNCHANGED unitVars

\* ---------------------------------------------------- the producer

\* The producer sending the same name again: the loop over names does not
\* move on after a send.
HandoffNoAdvance ==
    /\ pcProd = "run"
    /\ next <= Len(names)
    /\ idle > 0
    /\ idle' = idle - 1
    /\ job' = [job EXCEPT ![names[next]] = [NoJob EXCEPT !.pc = "drop"]]
    /\ UNCHANGED <<cfg, cancelled, pcMain, result, pinged, names, asked,
                   pcProd, next, jobsClosed, doneClosed, gone, ops, failed,
                   firstErr>>
    /\ UNCHANGED unitVars

\* The producer's select, case jobs <- name, met by a worker's
\* `for name := range jobs`.  The select may take this case whether or not
\* ctx.Done() is closed.
Handoff ==
    /\ pcProd = "run"
    /\ next <= Len(names)
    /\ idle > 0
    /\ idle' = idle - 1
    /\ job' = [job EXCEPT ![names[next]] = [NoJob EXCEPT !.pc = "drop"]]
    /\ next' = next + 1
    /\ UNCHANGED <<cfg, cancelled, pcMain, result, pinged, names, asked,
                   pcProd, jobsClosed, doneClosed, gone, ops, failed,
                   firstErr>>
    /\ UNCHANGED unitVars

\* The producer's select, case <-ctx.Done(): return (jobs stays open).
ProducerCtxDone ==
    /\ pcProd = "run"
    /\ next <= Len(names)
    /\ cancelled
    /\ pcProd' = "quit"
    /\ UNCHANGED <<cfg, cancelled, pcMain, result, pinged, names, asked,
                   next, jobsClosed, doneClosed, idle, gone, job, ops,
                   failed, firstErr>>
    /\ UNCHANGED unitVars

\* The producer with close(jobs) missing.
ProducerNoClose ==
    /\ pcProd = "run"
    /\ next > Len(names)
    /\ pcProd' = "closed"
    /\ UNCHANGED <<cfg, cancelled, pcMain, result, pinged, names, asked, next,
                   jobsClosed, doneClosed, idle, gone, job, ops, failed,
                   firstErr>>
    /\ UNCHANGED unitVars

\* The producer after its loop: close(jobs).
ProducerClose ==
    /\ pcProd = "run"
    /\ next > Len(names)
    /\ pcProd' = "closed"
    /\ jobsClosed' = TRUE
    /\ UNCHANGED <<cfg, cancelled, pcMain, result, pinged, names, asked,
                   next, doneClosed, idle, gone, job, ops, failed, firstErr>>
    /\ UNCHANGED unitVars

\* ------------------------------------------------------ the workers

\* History: the failure e occurs now.
Failure(e) ==
    /\ failed' = failed \cup {e}
    /\ firstErr' = IF firstErr = Nil THEN e ELSE firstErr

NoFailure == UNCHANGED <<failed, firstErr>>

\* `for name := range jobs` on the closed channel: the loop ends, the
\* deferred wg.Done() runs.
WorkerExit ==
    /\ idle > 0
    /\ jobsClosed
    /\ idle' = idle - 1
    /\ gone' = gone + 1
    /\ UNCHANGED <<cfg, cancelled, pcMain, result, pinged, names, asked,
                   pcProd, next, jobsClosed, doneClosed, job, ops, failed,
                   firstErr>>
    /\ UNCHANGED unitVars

\* dropDB with `if cfg.drop { return nil }`: the target is dropped exactly
\* when drop-before-import is not configured.
WorkerDropInverted(d) ==
    /\ job[d].pc = "drop"
    /\ IF cfg.drop
       THEN /\ job' = [job EXCEPT ![d].pc = "import"]
            /\ UNCHANGED <<ops, pinged, failed, firstErr>>
       ELSE /\ ops' = ops \cup {Call("drop", DropTarget(d), <<>>)}
            /\ \E ok \in BOOLEAN :
                  /\ ok => ~cancelled
                  /\ IF ok
                     THEN /\ job' = [job EXCEPT ![d].pc = "import"]
                          /\ NoFailure
                     ELSE /\ job' = [job EXCEPT ![d].pc = "dropErr"]
                          /\ Failure(Err("drop", d))
    /\ UNCHANGED <<cfg, cancelled, pcMain, result, pinged, names, asked,
                   pcProd, next, jobsClosed, doneClosed, idle, gone>>
    /\ UNCHANGED unitVars

\* cfg.dropDB(ctx, i.target.Database(name)): nothing unless cfg.drop, else
\* db.Drop on the target.
WorkerDrop(d) ==
    /\ job[d].pc = "drop"
    /\ IF ~cfg.drop
       THEN /\ job' = [job EXCEPT ![d].pc = "import"]
            /\ UNCHANGED <<ops, pinged, failed, firstErr>>
       ELSE /\ ops' = ops \cup {Call("drop", DropTarget(d), <<>>)}
            /\ \E ok \in BOOLEAN :
                  /\ ok => ~cancelled
                  /\ IF ok
                     THEN /\ job' = [job EXCEPT ![d].pc = "import"]
                          /\ NoFailure
                     ELSE /\ job' = [job EXCEPT ![d].pc = "dropErr"]
                          /\ Failure(Err("drop", d))
    /\ UNCHANGED <<cfg, cancelled, pcMain, result, pinged, names, asked,
                   pcProd, next, jobsClosed, doneClosed, idle, gone>>
    /\ UNCHANGED unitVars

\* The error a worker blocked in its select is trying to send.
PendingErr(d) ==
    IF job[d].pc = "dropErr" THEN Err("drop", d) ELSE Err("import", d)

\* The worker's select with a default case: the worker returns without
\* having sent its error, whether or not the context is cancelled.
WorkerReturnUnsent(d) ==
    /\ job[d].pc \in {"dropErr", "impErr"}
    /\ job' = [job EXCEPT ![d] = [NoJob EXCEPT !.pc = "quit"]]
    /\ gone' = gone + 1
    /\ UNCHANGED <<cfg, cancelled, pcMain, result, pinged, names, asked,
                   pcProd, next, jobsClosed, doneClosed, idle, ops, failed,
                   firstErr>>
    /\ UNCHANGED unitVars

\* The worker's select after a failure, case <-ctx.Done(): return.
WorkerCtxDone(d) ==
    /\ job[d].pc \in {"dropErr", "impErr"}
    /\ cancelled
    /\ job' = [job EXCEPT ![d] = [NoJob EXCEPT !.pc = "quit"]]
    /\ gone' = gone + 1
    /\ UNCHANGED <<cfg, cancelled, pcMain, result, pinged, names, asked,
                   pcProd, next, jobsClosed, doneClosed, idle, ops, failed,
                   firstErr>>
    /\ UNCHANGED unitVars

\* The worker's loop body run again for the same name: a retry from the
\* drop instead of the next `range jobs`.
EndOfBodyRetry(d) ==
    /\ job' = [job EXCEPT ![d] = [NoJob EXCEPT !.pc = "drop"]]
    /\ idle' = idle

\* The worker's loop body ended for database d: back to `range jobs`.
EndOfBody(d) ==
    /\ job' = [job EXCEPT ![d] = [NoJob EXCEPT !.pc = "done"]]
    /\ idle' = idle + 1

\* The worker's select after a failure, case errors <- err, met by the
\* caller's select, case err := <-errors: return err.  After the send the
\* worker goes on: from the drop to importDatabase, from importDatabase to
\* the next name.
SendError(d) ==
    /\ job[d].pc \in {"dropErr", "impErr"}
    /\ pcMain = "select"
    /\ pcMain' = "returned"
    /\ result' = PendingErr(d)
    /\ IF job[d].pc = "dropErr"
       THEN /\ job' = [job EXCEPT ![d].pc = "import"]
            /\ idle' = idle
       ELSE EndOfBody(d)
    /\ UNCHANGED <<cfg, cancelled, pinged, names, asked, pcProd, next,
                   jobsClosed, doneClosed, gone, ops, failed, firstErr>>
    /\ UNCHANGED unitVars

\* importDatabase: db.ListCollectionNames, then one errgroup task per
\* collection.
WorkerList(d) ==
    /\ job[d].pc = "import"
    /\ ops' = ops \cup {Call("listCollectionNames", SourceOf(d, ""), <<>>)}
    /\ \E ok \in BOOLEAN :
          /\ ok => ~cancelled
          /\ IF ok
             THEN /\ job' = [job EXCEPT ![d].pc = "copy",
                                        ![d].tasks = [c \in Range(Collections(d)) |-> "run"]]
                  /\ NoFailure
             ELSE /\ job' = [job EXCEPT ![d].pc = "impErr"]
                  /\ Failure(Err("import", d))
    /\ UNCHANGED <<cfg, cancelled, pcMain, result, pinged, names, asked,
                   pcProd, next, jobsClosed, doneClosed, idle, gone>>
    /\ UNCHANGED unitVars

\* The context of a database's collection tasks is cancelled: by the run's
\* context, or by the errgroup after a task's failure.
GroupCancelled(d) ==
    \/ cancelled
    \/ \E c \in DOMAIN job[d].tasks : job[d].tasks[c] = "fail"

\* What one run of importCollection can do with the documents `docs`:
\* whether it succeeds, and the chunks it hands to InsertMany.  It fails in
\* Find (no chunk), in the j-th InsertMany, or in the cursor after r
\* documents.
CopyOutcomes(docs, B) ==
    LET all == Batches(docs, <<>>, B, TRUE) IN
    {[ok |-> TRUE, chunks |-> all], [ok |-> FALSE, chunks |-> <<>>]}
    \cup {[ok |-> FALSE, chunks |-> SubSeq(all, 1, j)] : j \in 1..Len(all)}
    \cup {[ok |-> FALSE, chunks |-> Batches(SubSeq(docs, 1, r), <<>>, B, FALSE)] :
              r \in 0..Len(docs)}

\* importCollection for collection c of database d, one task of the
\* errgroup.  The first failure of a task is the error group.Wait returns.
ImportCollection(d, c) ==
    /\ job[d].pc = "copy"
    /\ c \in DOMAIN job[d].tasks
    /\ job[d].tasks[c] = "run"
    /\ \E out \in CopyOutcomes(Docs(d, c), BatchSizeOf(cfg.batchSize)) :
          /\ out.ok => ~GroupCancelled(d)
          /\ (GroupCancelled(d) /\ ~out.ok) => out.chunks = <<>>
          /\ ops' = ops \cup {Call("find", SourceOf(d, c), <<>>)}
                        \cup InsertCalls(d, c, out.chunks)
          /\ IF out.ok
             THEN /\ job' = [job EXCEPT ![d].tasks[c] = "ok"]
                  /\ NoFailure
             ELSE /\ job' = [job EXCEPT ![d].tasks[c] = "fail"]
                  /\ Failure(Err("import", d))
    /\ UNCHANGED <<cfg, cancelled, pcMain, result, pinged, names, asked,
                   pcProd, next, jobsClosed, doneClosed, idle, gone>>
    /\ UNCHANGED unitVars

\* importDatabase: group.Wait(), then ensureIndexes unless disabled.
WorkerJoin(d) ==
    /\ job[d].pc = "copy"
    /\ \A c \in DOMAIN job[d].tasks : job[d].tasks[c] # "run"
    /\ IF \E c \in DOMAIN job[d].tasks : job[d].tasks[c] = "fail"
       THEN /\ job' = [job EXCEPT ![d] = [NoJob EXCEPT !.pc = "impErr"]]
            /\ idle' = idle
       ELSE IF cfg.ensureIndexes /\ Len(Collections(d)) > 0
            THEN /\ job' = [job EXCEPT ![d] = [NoJob EXCEPT !.pc = "index", !.idx = 1]]
                 /\ idle' = idle
            ELSE EndOfBody(d)
    /\ UNCHANGED <<cfg, cancelled, pcMain, result, pinged, names, asked,
                   pcProd, next, jobsClosed, doneClosed, gone, ops, failed,
                   firstErr>>
    /\ UNCHANGED unitVars

\* ensureIndexes: ensureColIndexes for the collection at position idx:
\* Indexes().List on the source, then CreateMany on the target when an
\* index model is left.
WorkerIndex(d) ==
    /\ job[d].pc = "index"
    /\ LET c == Collections(d)[job[d].idx]
       IN \E out \in {"ok", "list", "create"}, models \in IdxModels(Indexes(d, c)) :
             /\ cancelled => out = "list"
             /\ (out = "create") => Len(models) > 0
             /\ ops' = ops \cup {Call("listIndexes", SourceOf(d, c), <<>>)}
                           \cup (IF out # "list" /\ Len(models) > 0
                                 THEN {Call("createIndexes", TargetOf(d, c), models)}
                                 ELSE {})
             /\ IF out = "ok"
                THEN /\ NoFailure
                     /\ IF job[d].idx < Len(Collections(d))
                        THEN /\ job' = [job EXCEPT ![d].idx = @ + 1]
                             /\ idle' = idle
                        ELSE EndOfBody(d)
                ELSE /\ job' = [job EXCEPT ![d] = [NoJob EXCEPT !.pc = "impErr"]]
                     /\ idle' = idle
                     /\ Failure(Err("import", d))
    /\ UNCHANGED <<cfg, cancelled, pcMain, result, pinged, names, asked,
                   pcProd, next, jobsClosed, doneClosed, gone>>
    /\ UNCHANGED unitVars

\* The goroutine `wg.Wait(); close(done)`: wg was set to cfg.parallel.
WaiterClose ==
    /\ pcProd # "none"
    /\ ~doneClosed
    /\ gone = NumWorkers(cfg.parallel)
    /\ doneClosed' = TRUE
    /\ UNCHANGED <<cfg, cancelled, pcMain, result, pinged, names, asked,
                   pcProd, next, jobsClosed, idle, gone, job, ops, failed,
                   firstErr>>
    /\ UNCHANGED unitVars

\* ------------------------------------------------- the environment

\* The run's context is cancelled (main.go cancels it on SIGTERM or an
\* interrupt).
Cancel ==
    /\ ~cancelled
    /\ pcMain # "exited"
    /\ cancelled' = TRUE
    /\ UNCHANGED <<cfg, pcMain, result, pinged, names, asked, pcProd, next,
                   jobsClosed, doneClosed, idle, gone, job, ops, failed,
                   firstErr>>
    /\ UNCHANGED unitVars

Next ==
    \/ MainPing
    \/ MainList
    \/ MainConfirm
    \/ MainSpawn
    \/ MainCtxDone
    \/ MainDone
    \/ Handoff
    \/ ProducerCtxDone
    \/ ProducerClose
    \/ WorkerExit
    \/ WaiterClose
    \/ Cancel
    \/ \E d \in DBs : WorkerDrop(d)
    \/ \E d \in DBs : WorkerCtxDone(d)
    \/ \E d \in DBs : SendError(d)
    \/ \E d \in DBs : WorkerList(d)
    \/ \E d \in DBs : \E c \in {"c1", "c2"} : ImportCollection(d, c)
    \/ \E d \in DBs : WorkerJoin(d)
    \/ \E d \in DBs : WorkerIndex(d)

Spec == Init /\ [][Next]_vars

\* The Go scheduler runs every goroutine that can take a step: each step
\* of the caller, the producer, the wg.Wait goroutine and the workers is
\* weakly fair.  The cancellation of the context is not.
Fairness ==
    /\ WF_vars(MainPing)
    /\ WF_vars(MainList)
    /\ WF_vars(MainConfirm)
    /\ WF_vars(MainSpawn)
    /\ WF_vars(MainCtxDone)
    /\ WF_vars(MainDone)
    /\ WF_vars(Handoff)
    /\ WF_vars(ProducerCtxDone)
    /\ WF_vars(ProducerClose)
    /\ WF_vars(WorkerExit)
    /\ WF_vars(WaiterClose)
    /\ \A d \in DBs :
          /\ WF_vars(WorkerDrop(d))
          /\ WF_vars(WorkerCtxDone(d))
          /\ WF_vars(SendError(d))
          /\ WF_vars(WorkerList(d))
          /\ WF_vars(WorkerJoin(d))
          /\ WF_vars(WorkerIndex(d))
          /\ \A c \in {"c1", "c2"} : WF_vars(ImportCollection(d, c))

\* The runs with every option that adds work switched on: no prompt, the
\* target dropped, the indexes ensured; any parallelism, any filter list.
InitFair == Init /\ cfg.skipConfirm /\ cfg.drop /\ cfg.ensureIndexes

FairSpec == InitFair /\ [][Next]_vars /\ Fairness

\* -------------------------------------------- filterDatabases alone

\* Largest number of database names in a list that is filtered.
MaxNames == 3

\* Largest number of predicates in cfg.dbFilter.
MaxFilters == 2

\* The patterns handed to Exclude: a, b$ and ^x.
PatA == [lit |-> <<"a">>, bol |-> FALSE, eol |-> FALSE]
PatBEnd == [lit |-> <<"b">>, bol |-> FALSE, eol |-> TRUE]
PatXStart == [lit |-> <<"x">>, bol |-> TRUE, eol |-> FALSE]

\* The predicates the options install: HasPrefix closures (main.go's
\* -prefix) and Exclude closures.
Predicates ==
    { [prefix |-> <<"m">>],
      [prefix |-> <<"m", "a">>],
      [exclude |-> <<>>],
      [exclude |-> <<PatA>>],
      [exclude |-> <<PatBEnd, PatXStart>>] }

\* The sequences over S of length at most n.
SeqsUpTo(S, n) == UNION { [1..k -> S] : k \in 0..n }

\* The other variables while filterDatabases alone is explored.
PoolParked ==
    /\ cfg = <<>>
    /\ cancelled = FALSE
    /\ pcMain = "none"
    /\ result = NoResult
    /\ pinged = "none"
    /\ names = <<>>
    /\ asked = "none"
    /\ pcProd = "none"
    /\ next = 1
    /\ jobsClosed = FALSE
    /\ doneClosed = FALSE
    /\ idle = 0
    /\ gone = 0
    /\ job = <<>>
    /\ ops = {}
    /\ failed = {}
    /\ firstErr = Nil

\* A call of filterDatabases: any option list, any list of names
\* (ListDatabaseNames returns each name once, the function takes any list).
FilterInit ==
    /\ flt \in [pc : {"call"},
                 dbFilter : SeqsUpTo(Predicates, MaxFilters),
                 names : SeqsUpTo(DBs, MaxNames),
                 out : {<<>>}]
    /\ DbParked
    /\ PoolParked

\* names = cfg.filterDatabases(names...)
FilterCall ==
    /\ flt.pc = "call"
    /\ flt' = [flt EXCEPT !.pc = "returned",
                          !.out = filterDatabases(flt.dbFilter, flt.names)]
    /\ UNCHANGED <<icfg, srcdb, ictx, task, imp>>
    /\ UNCHANGED vars

FilterNext == FilterCall

FilterSpec == FilterInit /\ [][FilterNext]_flt

\* --------------------------------------- importDatabase step by step

\* Largest number of documents a cursor yields.
MaxDocs == 3

\* Largest value of the -batch option that is explored.
MaxBatch == 2

\* Smallest value of the -batch option that is explored (below the clamp).
MinBatch == 0 - 1

\* What db.ListCollectionNames can return.
ColLists == { <<>>, <<"c1">>, <<"c1", "c2">> }

\* Index descriptors as col.Indexes().List yields them: the default index,
\* a unique single-field index, a compound index, and an index with a
\* reserved key field next to a plain one.  The server leaves out `unique`
\* where it is false.
IdxId == [name |-> "_id_", key |-> << <<IdKey, 1>> >>]
IdxA == [name |-> "a_1", unique |-> TRUE, key |-> << <<<<"a">>, 1>> >>]
IdxAB == [name |-> "a_1_b_-1", key |-> << <<<<"a">>, 1>>, <<<<"b">>, 0 - 1>> >>]
IdxXA == [name |-> "x", key |-> << <<<<"_", "x">>, "text">>, <<<<"a">>, "2d">> >>]

\* What col.Indexes().List can yield for a collection.
DescLists == { <<>>, <<IdxId>>, <<IdxId, IdxA>>, <<IdxId, IdxAB>>, <<IdxXA, IdxId>> }

\* The number of documents the cursor over collection c can yield at most.
MaxDocsOf(c) == IF c = "c1" THEN MaxDocs ELSE 1

\* Errors of importCollection, ensureColIndexes and importDatabase.
ColErr(c, kind) == [col |-> c, kind |-> kind]
NoErr == ColErr("", "nil")

NoTask == [pc |-> "none", pos |-> 0, buf |-> <<>>, calls |-> <<>>,
           stored |-> <<>>, err |-> NoErr]

\* A call of importDatabase with any batch size and index option; the
\* content of the source database is drawn when it is read.
DbInit ==
    /\ icfg \in [batchSize : MinBatch..MaxBatch, ensureIndexes : BOOLEAN]
    /\ srcdb = [cols |-> <<>>]
    /\ ictx = FALSE
    /\ task = [c \in {"c1", "c2"} |-> NoTask]
    /\ imp = [pc |-> "list", next |-> 1, grp |-> NoErr, idx |-> 1,
              ixops |-> <<>>, err |-> NoErr]
    /\ flt = <<>>
    /\ PoolParked

\* The tasks running under importCtx itself, as with a plain group that has
\* no context of its own: a task's error cancels nothing.
GroupDoneRunOnly == ictx

\* The context of the collection tasks is done: importCtx derives from the
\* caller's ctx, and the errgroup cancels it at the first task error.
GroupDone == ictx \/ imp.grp # NoErr

\* importDatabase: db.ListCollectionNames(ctx, bson.M{}).
DbList ==
    /\ imp.pc = "list"
    /\ \E ok \in BOOLEAN :
          /\ ok => ~ictx
          /\ IF ok
             THEN \E cols \in ColLists :
                     /\ srcdb' = [srcdb EXCEPT !.cols = cols]
                     /\ imp' = [imp EXCEPT !.pc = "spawn"]
             ELSE /\ srcdb' = srcdb
                  /\ imp' = [imp EXCEPT !.pc = "returned", !.err = ColErr("", "list")]
    /\ UNCHANGED <<icfg, ictx, task, flt>>
    /\ UNCHANGED vars

\* importDatabase: group.Go for the next collection name; the task starts
\* with importCollection's Find.
DbSpawn ==
    /\ imp.pc = "spawn"
    /\ imp.next <= Len(srcdb.cols)
    /\ task' = [task EXCEPT ![srcdb.cols[imp.next]].pc = "find"]
    /\ imp' = [imp EXCEPT !.next = @ + 1]
    /\ UNCHANGED <<icfg, srcdb, ictx, flt>>
    /\ UNCHANGED vars

\* A task returns the error of importCollection: the errgroup keeps the
\* first error and cancels the tasks' context.
TaskFail(c, kind) ==
    /\ imp' = [imp EXCEPT !.grp = IF @ = NoErr THEN ColErr(c, kind) ELSE @]

\* importCollection: col.Find(ctx, ...).  A cancelled context makes it fail.
TaskFind(c) ==
    /\ task[c].pc = "find"
    /\ \E ok \in BOOLEAN :
          /\ ok => ~GroupDone
          /\ IF ok
             THEN /\ task' = [task EXCEPT ![c].pc = "read"]
                  /\ imp' = imp
             ELSE /\ task' = [task EXCEPT ![c].pc = "failed",
                                          ![c].err = ColErr(c, "find")]
                  /\ TaskFail(c, "find")
    /\ UNCHANGED <<icfg, srcdb, ictx, flt>>
    /\ UNCHANGED vars

\* What target.InsertMany(ctx, chunk) can do: succeed with the chunk stored
\* (not under a cancelled context), or fail with the documents before the
\* failing one stored (an ordered bulk write; all of them when only the
\* reply was lost).
InsertManyResults(chunk, ctxDone) ==
    (IF ctxDone THEN {} ELSE {[ok |-> TRUE, wrote |-> chunk]})
    \cup { [ok |-> FALSE, wrote |-> SubSeq(chunk, 1, j)] : j \in 0..Len(chunk) }

\* The read loop with `len(buf) > cfg.batchSize`.
FullOver(buf, B) == Len(buf) > B

\* importCollection: `if len(buf) >= cfg.batchSize`.
Full(buf, B) == Len(buf) >= B

\* insertBatch with the error of InsertMany dropped.
FlushErrIgnored(res) == "nil"

\* insertBatch: `if _, err := target.InsertMany(ctx, buf); err != nil`.
FlushErr(res) == IF res.ok THEN "nil" ELSE "insert"

\* insertBatch for the task `rec` of collection c (its buffer as the read
\* loop left it); `after` is the task's position when insertBatch returned
\* nil.  An empty buffer makes no call.  Each call of InsertMany is recorded
\* with its documents and whether it succeeded.
Flush(c, rec, after) ==
    IF Len(rec.buf) = 0
    THEN /\ task' = [task EXCEPT ![c] = [rec EXCEPT !.pc = after]]
         /\ imp' = imp
    ELSE \E res \in InsertManyResults(rec.buf, GroupDone) :
            LET sent == [rec EXCEPT
                            !.calls = Append(@, [docs |-> rec.buf, ok |-> res.ok]),
                            !.stored = @ \o res.wrote]
            IN IF FlushErr(res) = "nil"
               THEN /\ task' = [task EXCEPT ![c] = [sent EXCEPT !.pc = after,
                                                                !.buf = <<>>]]
                    /\ imp' = imp
               ELSE /\ task' = [task EXCEPT ![c] = [sent EXCEPT !.pc = "failed",
                                                                !.err = ColErr(c, "insert")]]
                    /\ TaskFail(c, "insert")

\* importCollection: cur.Next(ctx) yields a document (the cursor may still
\* yield buffered documents under a cancelled context), cur.Decode, append,
\* and insertBatch when the buffer is full.  Documents are numbered in
\* cursor order.
TaskRead(c) ==
    /\ task[c].pc = "read"
    /\ task[c].pos < MaxDocsOf(c)
    /\ \E decoded \in BOOLEAN :
          IF ~decoded
          THEN /\ task' = [task EXCEPT ![c].pc = "failed",
                                       ![c].err = ColErr(c, "decode")]
               /\ TaskFail(c, "decode")
          ELSE LET rec == [task[c] EXCEPT !.pos = @ + 1,
                                          !.buf = Append(@, task[c].pos + 1)]
               IN IF Full(rec.buf, BatchSizeOf(icfg.batchSize))
                  THEN Flush(c, rec, "read")
                  ELSE /\ task' = [task EXCEPT ![c] = rec]
                       /\ imp' = imp
    /\ UNCHANGED <<icfg, srcdb, ictx, flt>>
    /\ UNCHANGED vars

\* importCollection: cur.Next(ctx) returns false.  With cur.Err() set the
\* task fails; else the stream has ended and insertBatch flushes what is
\* left in the buffer.
TaskEnd(c) ==
    /\ task[c].pc = "read"
    /\ \E clean \in BOOLEAN :
          IF clean
          THEN Flush(c, task[c], "done")
          ELSE /\ task' = [task EXCEPT ![c].pc = "failed",
                                       ![c].err = ColErr(c, "cursor")]
               /\ TaskFail(c, "cursor")
    /\ UNCHANGED <<icfg, srcdb, ictx, flt>>
    /\ UNCHANGED vars

\* Every task that was started has returned.
Joined == \A c \in DOMAIN task : task[c].pc \in {"none", "done", "failed"}

\* importDatabase with ensureIndexes called without the group's error
\* looked at.
AfterJoinNoCheck(grp, ensure) == IF ensure THEN "index" ELSE "nil"

\* importDatabase after group.Wait(): the group's error is returned; else
\* ensureIndexes is called if cfg.ensureIndexes, else nil is returned.
AfterJoin(grp, ensure) ==
    IF grp # NoErr THEN "error" ELSE IF ensure THEN "index" ELSE "nil"

\* importDatabase with no group.Wait() before ensureIndexes.
DbJoinNoWait ==
    /\ imp.pc = "spawn"
    /\ imp.next > Len(srcdb.cols)
    /\ imp' = [imp EXCEPT !.pc = IF Len(srcdb.cols) = 0 THEN "returned" ELSE "index"]
    /\ UNCHANGED <<icfg, srcdb, ictx, task, flt>>
    /\ UNCHANGED vars

\* importDatabase: group.Wait() returns when every task has returned; then
\* the group's error, ensureIndexes (a loop over the collection names) or
\* nil.
DbJoin ==
    /\ imp.pc = "spawn"
    /\ imp.next > Len(srcdb.cols)
    /\ Joined
    /\ LET r == AfterJoin(imp.grp, icfg.ensureIndexes) IN
       imp' = [imp EXCEPT
                  !.pc = IF r = "index" /\ Len(srcdb.cols) > 0 THEN "index" ELSE "returned",
                  !.err = IF r = "error" THEN imp.grp ELSE NoErr]
    /\ UNCHANGED <<icfg, srcdb, ictx, task, flt>>
    /\ UNCHANGED vars

\* ensureColIndexes with CreateMany called whatever idxModels holds.
CreateAlways(models) == TRUE

\* ensureColIndexes: `if len(idxModels) > 0`.
CreateWanted(models) == Len(models) > 0

\* ensureIndexes called with the errgroup's ctx, the one in scope under the
\* name ctx after errgroup.WithContext: done at a task's error, and done
\* once group.Wait has returned.
IndexCtxIsGroupCtx == GroupDone \/ imp.pc = "index"

\* The context of the indexing phase is done: indexCtx derives from the ctx
\* importDatabase was called with, not from the errgroup's.
IndexCtxDone == ictx

\* An index operation of ensureColIndexes, with the state of the context it
\* was issued under.
IxOp(op, c, arg, ok) ==
    [op |-> op, col |-> c, arg |-> arg, ok |-> ok, ctxDone |-> IndexCtxDone]

\* ensureIndexes: ensureColIndexes for the collection at position idx.
\* Indexes().List and cur.All yield the descriptors or fail; CreateMany is
\* called when an index model is left, and can fail.
DbIndex ==
    /\ imp.pc = "index"
    /\ LET c == srcdb.cols[imp.idx] IN
       \E out \in {"ok", "list", "create"}, descs \in DescLists :
          \E models \in IdxModels(descs) :
             /\ IndexCtxDone => out = "list"
             /\ (out = "list") => descs = <<>>
             /\ (out = "create") => CreateWanted(models)
             /\ LET listed == Append(imp.ixops, IxOp("listIndexes", c, descs, out # "list"))
                    issued == IF out # "list" /\ CreateWanted(models)
                              THEN Append(listed, IxOp("createIndexes", c, models, out = "ok"))
                              ELSE listed
                IN imp' = [imp EXCEPT
                              !.ixops = issued,
                              !.idx = IF out = "ok" THEN @ + 1 ELSE @,
                              !.pc = IF out = "ok" /\ imp.idx < Len(srcdb.cols)
                                     THEN "index" ELSE "returned",
                              !.err = IF out = "ok" THEN NoErr ELSE ColErr(c, out)]
    /\ UNCHANGED <<icfg, srcdb, ictx, task, flt>>
    /\ UNCHANGED vars

\* The ctx importDatabase was called with is cancelled.
DbCancel ==
    /\ ~ictx
    /\ imp.pc # "returned"
    /\ ictx' = TRUE
    /\ UNCHANGED <<icfg, srcdb, task, imp, flt>>
    /\ UNCHANGED vars

DbNext ==
    \/ DbList
    \/ DbSpawn
    \/ DbJoin
    \/ DbIndex
    \/ DbCancel
    \/ \E c \in {"c1", "c2"} : TaskFind(c)
    \/ \E c \in {"c1", "c2"} : TaskRead(c)
    \/ \E c \in {"c1", "c2"} : TaskEnd(c)

DbSpec == DbInit /\ [][DbNext]_unitVars

\* ------------------------------------------------------------ claims

\* The calls that touch a database: everything but the pings and the
\* listing of the database names.
DataOps == { o \in ops : o.op \notin {"ping", "listDatabaseNames"} }

\* The databases whose worker is in the loop body.
InBody ==
    { d \in DBs : job[d].pc \in {"drop", "dropErr", "import", "copy", "index", "impErr"} }

\* C1 (as claimed): Import returns nil only when every filtered database
\* was processed by a worker and its drop, copy and indexing all finished
\* without error, in every interleaving, cancellation included.
C1_NilOnlyWhenAllCopied ==
    (pcMain = "returned" /\ result = Nil) => AllCopied

\* C2 (as claimed): a worker error that Import returns is the error of the
\* failure that occurred first in time across all workers.
C2_ReturnsFirstFailure ==
    (pcMain = "returned" /\ IsWorkerErr(result)) => result = firstErr

\* C2 (amended): a worker error that Import returns is the error of a
\* failure that has occurred in some worker, the one the caller's select
\* received; and while the context is not cancelled, Import does not return
\* anything but a worker's error once a worker has failed.
C2_ReturnsAnOccurredFailure ==
    /\ (pcMain = "returned" /\ IsWorkerErr(result)) => result \in failed
    /\ (pcMain = "returned" /\ failed # {} /\ ~cancelled) => IsWorkerErr(result)

\* C2 witness: two failures have occurred and Import returned the later one.
C2_Witness ==
    /\ pcMain = "returned"
    /\ IsWorkerErr(result)
    /\ firstErr # Nil
    /\ result # firstErr

\* The hypothesis of C3: no operation has failed, the context is not
\* cancelled.
NoFault == ~cancelled /\ failed = {}

\* C3: if no drop, list, read, write or index operation ever fails and the
\* context is never cancelled, then once the pool is started Import
\* eventually returns nil, with every filtered database handed to a worker
\* and copied in full.
C3_EventuallyNil ==
    ([]NoFault) =>
        ((pcMain = "select") ~>
            (pcMain = "returned" /\ result = Nil /\ Taken = names /\ AllCopied))

\* C3 witness: Import returned nil after a fault-free run over two or more
\* databases.
C3_Witness ==
    /\ pcMain = "returned"
    /\ result = Nil
    /\ NoFault
    /\ Len(names) >= 2
    /\ Taken = names
    /\ AllCopied

\* C4: a declined confirmation ends the run aborted (the process exits, no
\* result is returned) with no drop, collection listing, read, insert or
\* index call ever made and no goroutine started; and no call touches a
\* database before the confirmation was passed.
C4_DeclinedTouchesNothing ==
    /\ (asked = "no") =>
          /\ pcMain = "exited"
          /\ result = NoResult
          /\ DataOps = {}
          /\ pcProd = "none"
          /\ idle = 0
          /\ \A d \in DBs : job[d].pc = "none"
    /\ (DataOps # {}) => (pcMain \in {"select", "returned"} /\ asked \in {"none", "yes"})

\* C4 witness: the prompt was declined with drop-before-import configured
\* and databases to import.
C4_Witness ==
    /\ asked = "no"
    /\ cfg.drop
    /\ Len(names) >= 2

\* C5: a failed ping of the source or of the target makes Import return the
\* ping's error with the database names not listed, the prompt not shown,
\* nothing started and no call made but the pings.
C5_PingFailureReturnsEarly ==
    (pinged \in {"source", "target"}) =>
        /\ pcMain = "returned"
        /\ result = Err("ping", <<pinged>>)
        /\ \A o \in ops : o.op = "ping"
        /\ names = <<>>
        /\ asked = "none"
        /\ pcProd = "none"
        /\ idle = 0

\* C5 witness: the ping of the target failed after the source answered.
C5_Witness ==
    /\ pinged = "target"
    /\ Call("ping", Cluster("target"), <<>>) \in ops

\* A name passes the filter list: every predicate returns true for it.
Accepted(d) ==
    \A k \in 1..Len(cfg.dbFilter) : ApplyFilter(cfg.dbFilter[k], d)

\* C6: no call of any kind is made for a database name the filter
\* rejected, and only accepted names are put on the jobs channel.
C6_OnlyFilteredNames ==
    /\ \A o \in DataOps : Accepted(o.db)
    /\ \A k \in 1..Len(Taken) : Accepted(Taken[k])
    /\ \A d \in DBs : job[d].pc # "none" => Accepted(d)

\* C6 witness: with a filter that rejects a database and drop-before-import
\* configured, a database was dropped on the target.
C6_Witness ==
    /\ \E d \in DBs : ~Accepted(d)
    /\ \E o \in ops : o.op = "drop"

\* C7: every drop, insert-many and create-indexes call is addressed to the
\* target, the source only gets reads, and what is written to the target
\* collection (d, c) was read from the source collection (d, c).
C7_SourceReadOnly ==
    \A o \in ops :
        /\ (o.op \in {"drop", "insertMany", "createIndexes"}) => o.cluster = "target"
        /\ (o.cluster = "source") =>
              o.op \in {"ping", "listDatabaseNames", "listCollectionNames",
                        "find", "listIndexes"}
        /\ (o.op = "insertMany") => Range(o.arg) \subseteq Range(Docs(o.db, o.col))
        /\ (o.op = "createIndexes") =>
              \A k \in 1..Len(o.arg) :
                  \E j \in 1..Len(Indexes(o.db, o.col)) :
                      Indexes(o.db, o.col)[j].name = o.arg[k].name

\* C7 witness: a database was dropped, documents inserted and indexes
\* created.
C7_Witness ==
    /\ \E o \in ops : o.op = "drop"
    /\ \E o \in ops : o.op = "insertMany"
    /\ \E o \in ops : o.op = "createIndexes"

\* C8: the number of databases a worker is dropping, copying or indexing
\* (or holding while it reports their error) never exceeds the configured
\* parallelism, clamped to at least 1.
C8_AtMostNConcurrent ==
    Cardinality(InBody) <= (IF cfg.parallel < 1 THEN 1 ELSE cfg.parallel)

\* C8 witness: with a parallelism below 1 one database is being copied
\* while another name is still pending.
C8_Witness ==
    /\ cfg.parallel < 1
    /\ Cardinality(Busy) = 1
    /\ next <= Len(names)

\* C9 (as claimed): once a worker has observed an error, or the run has
\* been cancelled, no worker takes a further name from the jobs channel.
C9_NoTakeAfterErrorOrCancel ==
    [][(cancelled \/ failed # {}) => next' = next]_vars

\* C10 (as claimed): when the context was cancelled before every filtered
\* database was copied, what Import returns is a cancellation error (the
\* context's error, or the error of a worker), never nil.
C10_CancelNeverReturnsNil ==
    [][(pcMain = "select" /\ cancelled /\ ~AllCopied /\ pcMain' = "returned")
          => (result' = CtxErr \/ IsWorkerErr(result'))]_vars

\* Every predicate of the list P returns true for the name.
AllAccept(P, name) == \A k \in 1..Len(P) : ApplyFilter(P[k], name)

\* The positions of L whose name every predicate of P accepts.
KeptAt(P, L) == { i \in 1..Len(L) : AllAccept(P, L[i]) }

\* C12: filterDatabases returns a subsequence of the name list in the
\* original order holding exactly the names every predicate accepts (one
\* entry per accepted position), and the list itself when there is no
\* predicate.
C12_FilterIsOrderedSelection ==
    (flt.pc = "returned") =>
        /\ Len(flt.out) = Cardinality(KeptAt(flt.dbFilter, flt.names))
        /\ \E pos \in [1..Len(flt.out) -> KeptAt(flt.dbFilter, flt.names)] :
               /\ \A i, j \in 1..Len(flt.out) : i < j => pos[i] < pos[j]
               /\ \A i \in 1..Len(flt.out) : flt.out[i] = flt.names[pos[i]]
        /\ (flt.dbFilter = <<>>) => flt.out = flt.names

\* C12 witness: two predicates were applied to three names; one name was
\* dropped and two were kept.
C12_Witness ==
    /\ flt.pc = "returned"
    /\ Len(flt.dbFilter) = 2
    /\ Len(flt.names) = 3
    /\ Len(flt.out) = 2

RECURSIVE Flatten(_)
Flatten(cs) == IF cs = <<>> THEN <<>> ELSE Head(cs).docs \o Flatten(Tail(cs))

\* The batch size in effect for a configured size: at least 1.
Effective(size) == IF size < 1 THEN 1 ELSE size

\* C11: when a collection copier has read a stream of K documents without
\* error and returned nil, with B the configured batch size clamped to at
\* least 1, it has issued exactly ceil(K/B) insert-many calls, the first
\* floor(K/B) of B documents and the last of K mod B documents (B if that
\* is 0), and the chunks in call order make up the stream in read order; no
\* call ever carries zero documents, and K = 0 issues no call.
C11_BatchesPartitionStream ==
    \A c \in DOMAIN task :
        LET B == Effective(icfg.batchSize)
            K == task[c].pos
            calls == task[c].calls
        IN /\ \A i \in 1..Len(calls) : Len(calls[i].docs) > 0
           /\ (task[c].pc = "done") =>
                 /\ Len(calls) = (K + B - 1) \div B
                 /\ \A i \in 1..(K \div B) : Len(calls[i].docs) = B
                 /\ (K % B # 0) => Len(calls[Len(calls)].docs) = K % B
                 /\ (K = 0) => calls = <<>>
                 /\ Flatten(calls) = [i \in 1..K |-> i]

\* C11 witness: three documents were copied with batch size 2 in two calls,
\* of two documents and of one.
C11_Witness ==
    /\ icfg.batchSize = 2
    /\ task["c1"].pc = "done"
    /\ task["c1"].pos = 3
    /\ Len(task["c1"].calls) = 2

\* C14: the first index operation of a database happens only after every
\* collection task of that database has returned: from the moment the
\* indexing phase has begun, no task of the database reads a document or
\* issues an insert-many.
C14_IndexAfterAllCopies ==
    [][(imp.pc = "index" \/ imp.ixops # <<>>) => (Joined /\ task' = task)]_unitVars

\* C14 witness: the indexes of a collection were listed and created after
\* two collections were copied, one of them in two insert-many calls.
C14_Witness ==
    /\ Len(imp.ixops) >= 2
    /\ task["c1"].pc = "done"
    /\ task["c2"].pc = "done"
    /\ Len(task["c1"].calls) >= 2

\* C15: index operations are issued for a database only if index creation
\* is enabled and every collection task succeeded; when a collection task
\* failed, importDatabase returns the first task error and no list-indexes
\* or create-indexes request was issued.
C15_IndexOnlyAfterSuccess ==
    /\ (imp.pc = "index" \/ imp.ixops # <<>>) =>
          /\ icfg.ensureIndexes
          /\ imp.grp = NoErr
          /\ \A c \in Range(srcdb.cols) : task[c].pc = "done"
    /\ (imp.pc = "returned" /\ \E c \in DOMAIN task : task[c].pc = "failed") =>
          /\ imp.ixops = <<>>
          /\ imp.err # NoErr
          /\ imp.err = imp.grp
          /\ \E c \in DOMAIN task : task[c].pc = "failed" /\ task[c].err = imp.err

\* C15 witness: with index creation enabled, one collection was copied and
\* the other failed after an insert; importDatabase returned its error.
C15_Witness ==
    /\ icfg.ensureIndexes
    /\ imp.pc = "returned"
    /\ task["c2"].pc = "done"
    /\ task["c1"].pc = "failed"
    /\ Len(task["c1"].calls) >= 1
    /\ imp.err = task["c1"].err

\* The calls made so far for database d.
OpsOf(d) == { o \in ops : o.db = d }

\* C16: with drop-before-import configured, the drop of a database's target
\* is issued before its collections are listed and before any read or
\* insert for it; without it no drop is ever issued.
C16_DropPrecedesCopy ==
    /\ \A d \in DBs :
          /\ (job[d].pc \in {"none", "drop"}) => OpsOf(d) = {}
          /\ (cfg.drop /\ OpsOf(d) # {}) => Call("drop", DropTarget(d), <<>>) \in ops
    /\ (~cfg.drop) => \A o \in ops : o.op # "drop"

\* C16 witness: with drop-before-import configured a database was dropped
\* and documents were inserted into it.
C16_Witness ==
    /\ cfg.drop
    /\ \E o \in ops : o.op = "insertMany" /\ Call("drop", DropTarget(o.db), <<>>) \in ops

\* C17 (as claimed): after the drop of a database's target failed, the
\* worker never lists the database's collections and never reads or inserts
\* any of its documents.
C17_FailedDropAbortsDatabase ==
    \A d \in DBs :
        (Err("drop", d) \in failed) =>
            \A o \in OpsOf(d) : o.op \notin {"listCollectionNames", "find", "insertMany"}

\* The key fields of a descriptor without the reserved ("_"-prefixed) ones,
\* in the descriptor's order, each with its type token.
RemainingKeys(desc) ==
    SelectSeq(desc.key, LAMBDA kv : ~HasPrefix(kv[1], <<"_">>))

\* The index models the claim asks for: one per descriptor with a key left,
\* with the descriptor's name, uniqueness and remaining keys.
ExpectedModels(descs) ==
    { [name |-> descs[k].name,
       unique |-> ("unique" \in DOMAIN descs[k]) /\ descs[k].unique,
       keys |-> RemainingKeys(descs[k])] :
          k \in { j \in 1..Len(descs) : RemainingKeys(descs[j]) # <<>> } }

\* C18 (as claimed): a create-indexes request holds no descriptor whose key
\* mapping is empty once the reserved fields are removed, and holds every
\* other descriptor that was listed with its name, its uniqueness flag, its
\* remaining keys in their order and each key's type token unchanged.
C18_IndexModelsPreserved ==
    \A i \in 2..Len(imp.ixops) :
        (imp.ixops[i].op = "createIndexes") =>
            /\ imp.ixops[i - 1].op = "listIndexes"
            /\ imp.ixops[i - 1].col = imp.ixops[i].col
            /\ Len(imp.ixops[i].arg) = Cardinality(ExpectedModels(imp.ixops[i - 1].arg))
            /\ Range(imp.ixops[i].arg) = ExpectedModels(imp.ixops[i - 1].arg)

\* The positions of the create-indexes requests issued for collection c.
CreatesFor(c) ==
    { i \in 1..Len(imp.ixops) :
         imp.ixops[i].op = "createIndexes" /\ imp.ixops[i].col = c }

\* C19: at most one create-indexes request is issued per collection, never
\* an empty one; when no listed descriptor has a key left, no request
\* follows and the collection's indexing ends without an error.
C19_AtMostOneCreatePerCollection ==
    /\ \A c \in {"c1", "c2"} : Cardinality(CreatesFor(c)) <= 1
    /\ \A i \in 1..Len(imp.ixops) :
          LET o == imp.ixops[i] IN
          /\ (o.op = "createIndexes") => Len(o.arg) > 0
          /\ (o.op = "listIndexes" /\ o.ok /\ ExpectedModels(o.arg) = {}) =>
                /\ CreatesFor(o.col) = {}
                /\ imp.err.col # o.col

\* C19 witness: importDatabase returned nil after a collection whose only
\* descriptor is the default index got no request and another collection
\* got one.
C19_Witness ==
    /\ imp.pc = "returned"
    /\ imp.err = NoErr
    /\ \E i \in 1..Len(imp.ixops) :
          /\ imp.ixops[i].op = "listIndexes"
          /\ imp.ixops[i].arg = <<IdxId>>
          /\ CreatesFor(imp.ixops[i].col) = {}
    /\ \E c \in {"c1", "c2"} : CreatesFor(c) # {}

\* The insert-many calls of a task that succeeded, in call order.
Flushed(c) == SelectSeq(task[c].calls, LAMBDA x : x.ok)

\* A failed insert-many of task c is its last call, is not retried, and is
\* the error the task returned; a failed task takes no further step.
StopsAtFailure(c) ==
    /\ \A i \in 1..Len(task[c].calls) :
          (~task[c].calls[i].ok) =>
              /\ i = Len(task[c].calls)
              /\ task[c].pc = "failed"
              /\ task[c].err = ColErr(c, "insert")
    /\ (task[c].pc = "failed") => (task[c].err # NoErr /\ task'[c] = task[c])

\* C20 (as claimed): when a read, a decode or an insert-many fails, the
\* copier returns that error and issues no further insert-many; what was
\* buffered is not written, the failed chunk is not retried, and the target
\* holds only the chunks flushed before the failure.
C20_TargetHoldsOnlyFlushedChunks ==
    [][\A c \in DOMAIN task :
          /\ StopsAtFailure(c)
          /\ (task[c].pc = "failed") => task[c].stored = Flatten(Flushed(c))]_unitVars

\* What the target collection of task c can hold: the chunks flushed with
\* success and, after a failed insert-many, a leading part of its chunk.
FlushedAndPartOfFailed(c) ==
    LET calls == task[c].calls IN
    IF calls # <<>> /\ ~calls[Len(calls)].ok
    THEN { Flatten(Flushed(c)) \o SubSeq(calls[Len(calls)].docs, 1, j) :
              j \in 0..Len(calls[Len(calls)].docs) }
    ELSE { Flatten(Flushed(c)) }

\* C20 (amended): when a read, a decode or an insert-many fails, the copier
\* returns that error and issues no further insert-many; what was buffered
\* and never sent is not written, the failed chunk is not retried, and the
\* target holds the chunks flushed before the failure and, after a failed
\* insert-many, at most a leading part of the failed chunk in addition.
C20_TargetHoldsFlushedAndPartOfFailed ==
    [][\A c \in DOMAIN task :
          /\ StopsAtFailure(c)
          /\ (task[c].pc = "failed") => task[c].stored \in FlushedAndPartOfFailed(c)]_unitVars

\* C20 witness: the second insert-many of a copier failed with documents
\* of its chunk stored; the first chunk and those documents are on the
\* target.
C20_Witness ==
    /\ task["c1"].pc = "failed"
    /\ task["c1"].err = ColErr("c1", "insert")
    /\ Len(task["c1"].calls) = 2
    /\ task["c1"].calls[1].ok
    /\ Len(task["c1"].stored) > Len(Flatten(Flushed("c1")))

\* The insert-many calls made so far for database d.
InsertsOf(d) == { o \in OpsOf(d) : o.op = "insertMany" }

\* This step calls Drop on the target database d.
DropIssued(d) == cfg.drop /\ job[d].pc = "drop" /\ job'[d].pc # "drop"

\* C21: once documents have been inserted into a target database, no later
\* step of the run, on any error or cancellation path, drops that database
\* or takes an inserted chunk back: the only drop of a database comes
\* before its first insert.
C21_ProgressNeverUndone ==
    [][\A d \in DBs :
          (InsertsOf(d) # {}) =>
              /\ ~DropIssued(d)
              /\ InsertsOf(d) \subseteq ops'
              /\ (Call("drop", DropTarget(d), <<>>) \in ops') =>
                     (Call("drop", DropTarget(d), <<>>) \in ops)]_vars

\* C21 witness: with drop-before-import configured, documents of a database
\* were inserted, its indexes were sent to the target and its import
\* failed; the worker has left the database.
C21_Witness ==
    /\ cfg.drop
    /\ InsertsOf(DbA) # {}
    /\ \E o \in OpsOf(DbA) : o.op = "createIndexes"
    /\ Err("import", DbA) \in failed
    /\ job[DbA].pc \in {"done", "quit"}

\* The Find and InsertMany calls in the call set o for collection c of
\* database d.
CopyOpsOf(o, d, c) ==
    { x \in o : x.db = d /\ x.col = c /\ x.op \in {"find", "insertMany"} }

\* C22: the filtered names being distinct, each name is handed to exactly
\* one worker and at most once (every hand-off moves the producer to the
\* next name, that name was never taken before, and exactly one idle worker
\* leaves the queue with it); each collection of a database gets exactly
\* one task, and only that task, in its single run, reads the collection
\* and inserts into it.
C22_EachNameAndCollectionOnce ==
    [][/\ (next' # next) =>
              /\ next' = next + 1
              /\ next <= Len(names)
              /\ job[names[next]].pc = "none"
              /\ job'[names[next]].pc = "drop"
              /\ idle' = idle - 1
       /\ \A d \in DBs :
              (job[d].pc # "drop" /\ job'[d].pc = "drop") =>
                  /\ job[d].pc = "none"
                  /\ next <= Len(names) /\ names[next] = d
                  /\ next' = next + 1
       /\ (idle' < idle) =>
              /\ idle' = idle - 1
              /\ (next' = next + 1) \/ (gone' = gone + 1)
       /\ \A d \in DBs :
              (job[d].pc # "copy" /\ job'[d].pc = "copy") =>
                  /\ DOMAIN job'[d].tasks = Range(Collections(d))
                  /\ \A c \in DOMAIN job'[d].tasks : job'[d].tasks[c] = "run"
       /\ \A d \in DBs : \A c \in Range(Collections(d)) :
              (CopyOpsOf(ops', d, c) # CopyOpsOf(ops, d, c)) =>
                  /\ job[d].pc = "copy"
                  /\ job[d].tasks[c] = "run"
                  /\ job'[d].tasks[c] \in {"ok", "fail"}
                  /\ \A e \in DOMAIN job[d].tasks :
                         e # c => job'[d].tasks[e] = job[d].tasks[e]]_vars

\* C22 witness: two workers hold two different databases at the same time,
\* and a collection task of one of them has finished its copy.
C22_Witness ==
    \E d1, d2 \in DBs :
        /\ d1 # d2
        /\ job[d1].pc = "copy"
        /\ job[d2].pc = "copy"
        /\ \E c \in DOMAIN job[d1].tasks :
               /\ job[d1].tasks[c] = "ok"
               /\ CopyOpsOf(ops, d1, c) # {}

\* C23: once a collection task of the database has failed, no task that
\* had not been started is started afterwards.
C23_NoTaskStartedAfterFailure ==
    [][(imp.grp # NoErr) =>
          \A c \in DOMAIN task :
              (task[c].pc = "none") => (task'[c].pc = "none")]_unitVars

\* C24: the failure of one collection task cancels the context its sibling
\* tasks share.  From then on no Find and no InsertMany of a sibling
\* succeeds: a sibling that makes such a call fails in it, and a failed task
\* issues no further read or insert and holds an error.  The failure does
\* not cancel the context of the caller, which is all that the tasks of
\* other databases share with these: only the run's own cancellation does.
C24_FailureCancelsSiblingsOnly ==
    [][/\ (ictx' # ictx) => (imp' = imp /\ task' = task)
       /\ \A c \in DOMAIN task :
              (imp.grp # NoErr /\ task'[c] # task[c]) =>
                  /\ task[c].pc \in {"none", "find", "read"}
                  /\ (task[c].pc = "find") => (task'[c].pc = "failed")
                  /\ (Len(task'[c].calls) > Len(task[c].calls)) =>
                         /\ ~task'[c].calls[Len(task'[c].calls)].ok
                         /\ task'[c].pc = "failed"
                  /\ (task'[c].pc = "failed") => (task'[c].err # NoErr)]_unitVars

\* C24 witness: the task of c2 failed first; its sibling c1, which had
\* already inserted a chunk, met the cancellation at its next InsertMany
\* and returned an error, and the caller's context is not cancelled.
C24_Witness ==
    /\ ~ictx
    /\ imp.grp.col = "c2"
    /\ task["c1"].pc = "failed"
    /\ task["c1"].err = ColErr("c1", "insert")
    /\ Len(task["c1"].calls) = 2
    /\ task["c1"].calls[1].ok
    /\ ~task["c1"].calls[2].ok

\* No child of Import is left: the producer was not started or has
\* returned, no worker waits on the jobs channel, and no worker is in its
\* loop body (copying a database or waiting to send its error).
ChildrenJoined ==
    /\ pcProd \in {"none", "closed", "quit"}
    /\ idle = 0
    /\ \A d \in DBs : job[d].pc \in {"none", "done", "quit"}

\* C25: Import joins every child it started: when Import has returned, for
\* whatever reason, no worker and no producer is still running, still
\* copying, or blocked on the jobs or errors channel.
C25_ReturnJoinsAllChildren ==
    (pcMain = "returned") => ChildrenJoined

\* A step of one of the goroutines of the run: every step but the
\* cancellation of the context, which comes from outside.
GoStep ==
    \/ MainPing \/ MainList \/ MainConfirm \/ MainSpawn
    \/ MainCtxDone \/ MainDone
    \/ Handoff \/ ProducerCtxDone \/ ProducerClose
    \/ WorkerExit \/ WaiterClose
    \/ \E d \in DBs : \/ WorkerDrop(d) \/ WorkerCtxDone(d) \/ SendError(d)
                      \/ WorkerList(d) \/ WorkerJoin(d) \/ WorkerIndex(d)
                      \/ \E c \in {"c1", "c2"} : ImportCollection(d, c)

\* C26: after the context was cancelled, or after a worker's error reached
\* Import, every worker and the producer terminate.  Stated on the states
\* in which no goroutine can take a step any more: there, no worker is left
\* waiting on the jobs channel or on the errors channel and the producer
\* has returned.
C26_WorkersAndProducerTerminate ==
    (/\ pcProd # "none"
     /\ cancelled \/ IsWorkerErr(result)
     /\ ~ENABLED GoStep) => ChildrenJoined

\* C27: the end of the collection task group never cancels the indexing
\* phase.  An index operation is issued under a cancelled context only when
\* the context importDatabase was called with is cancelled; so when every
\* task succeeded and that context is not cancelled, every index operation
\* of every collection was issued under a live context.
C27_IndexingOutlivesTaskGroup ==
    /\ \A i \in 1..Len(imp.ixops) :
           /\ imp.ixops[i].ctxDone => ictx
           /\ imp.ixops[i].ok => ~imp.ixops[i].ctxDone
    /\ (~ictx /\ imp.ixops # <<>>) =>
           /\ \A c \in Range(srcdb.cols) : task[c].pc = "done"
           /\ \A i \in 1..Len(imp.ixops) : ~imp.ixops[i].ctxDone

\* C27 witness: both collection tasks succeeded, the join has returned, the
\* context was never cancelled, and the indexes of both collections were
\* listed and created with success.
C27_Witness ==
    /\ ~ictx
    /\ srcdb.cols = <<"c1", "c2">>
    /\ imp.pc = "returned"
    /\ imp.err = NoErr
    /\ \A c \in {"c1", "c2"} :
           /\ task[c].pc = "done"
           /\ \E i \in 1..Len(imp.ixops) :
                  /\ imp.ixops[i].op = "createIndexes"
                  /\ imp.ixops[i].col = c
                  /\ imp.ixops[i].ok

====
